---- MODULE Spec2Model ----
(***************************************************************************)
(* Model of automate_script.py: one run of generate_inventory().           *)
(* Text values that the code slices or scans (container identifiers,       *)
(* names, port-table keys, HostPort values) are sequences of one-character *)
(* strings; values the code only compares or copies are TLA+ strings.      *)
(* An optional value (dict key that may be missing, None) is <<>> when     *)
(* absent and <<v>> when present.                                          *)
(***************************************************************************)
EXTENDS Integers, Sequences, FiniteSets, TLC

VARIABLES pc, dirs, list_result, container_ids, idx, results, containers_info,
          assigned, host_vars_files, group_vars_files, inventory, stdout,
          log, raised

vars == <<pc, dirs, list_result, container_ids, idx, results, containers_info,
          assigned, host_vars_files, group_vars_files, inventory, stdout,
          log, raised>>

\* Largest number of identifiers one listing returns in the model.
MaxContainers == 4

\* ---------------------------------------------------------------- values
None == <<>>
Some(v) == <<v>>

environments == <<"dev", "staging", "production">>

Envs == {environments[i] : i \in 1..Len(environments)}

\* cid[:12]
NamePrefixLen == 12

\* "ansible_port": ... else 22
DefaultPort == 22

Digits == <<"0", "1", "2", "3", "4", "5", "6", "7", "8", "9">>

IdChar(i) == Digits[(i % 10) + 1]

\* The i-th identifier printed by the runtime.  Odd ones are longer than
\* twelve characters, even ones shorter, so that cid[:12] is seen on both.
ContainerId(i) ==
    IF i % 2 = 1
    THEN <<IdChar(i), "a", "b", "c", "d", "e", "f", "0", "1", "2", "3", "4", "5", "6">>
    ELSE <<IdChar(i), "a", "b", "c", "d">>

\* ------------------------------------------------------- string helpers
Min(a, b) == IF a < b THEN a ELSE b

\* s[:n]
Slice(s, n) == SubSeq(s, 1, Min(n, Len(s)))

\* s.startswith(p)
startswith(s, p) == Len(s) >= Len(p) /\ SubSeq(s, 1, Len(p)) = p

RECURSIVE lstrip(_, _)
\* s.lstrip(c): removes every leading occurrence of the character c
lstrip(s, c) == IF s # <<>> /\ Head(s) = c THEN lstrip(Tail(s), c) ELSE s

DigitVal(c) == CHOOSE d \in 0..9 : Digits[d + 1] = c

IsDigit(c) == \E d \in 0..9 : Digits[d + 1] = c

\* int(s) succeeds on a non-empty string of decimal digits
IsNumeric(s) == s # <<>> /\ \A i \in 1..Len(s) : IsDigit(s[i])

RECURSIVE int(_)
\* int(s) for a string of decimal digits
int(s) == IF s = <<>> THEN 0
          ELSE 10 * int(SubSeq(s, 1, Len(s) - 1)) + DigitVal(s[Len(s)])

\* ------------------------------------------------- runtime output (inputs)
Str_my_app == <<"/", "m", "y", "-", "a", "p", "p">>
Str_web == <<"w", "e", "b">>
Key22tcp == <<"2", "2", "/", "t", "c", "p">>
Key22udp == <<"2", "2", "/", "u", "d", "p">>
Key80tcp == <<"8", "0", "/", "t", "c", "p">>
Key2222tcp == <<"2", "2", "2", "2", "/", "t", "c", "p">>
Key220udp == <<"2", "2", "0", "/", "u", "d", "p">>

Mapping(hp) == [HostPort |-> hp]
PortEntry(k, m) == [key |-> k, mappings |-> m]
Net(ip, ports) == [IPAddress |-> ip, Ports |-> ports]
Doc(name, net, other) == [Name |-> name, NetworkSettings |-> net, other |-> other]

\* A metadata document as 'podman inspect' prints it: Name and
\* NetworkSettings may be missing, 'other' says whether the document has
\* further keys (Id, State, ...).  The port table is in document order.
Docs ==
    { \* {} : a document with no key at all
      Doc(None, None, FALSE),
      \* "/my-app", address, 22/tcp -> 2222
      Doc(Some(Str_my_app), Some(Net(Some("10.88.0.2"), Some(<<PortEntry(Key22tcp, <<Mapping(Some(<<"2", "2", "2", "2">>))>>)>>))), TRUE),
      \* "//x", empty address, no port table
      Doc(Some(<<"/", "/", "x">>), Some(Net(Some(""), None)), TRUE),
      \* no Name, 80/tcp first, then 22/tcp with two mappings
      Doc(None, Some(Net(None, Some(<<PortEntry(Key80tcp, <<Mapping(Some(<<"8", "0", "8", "0">>))>>),
                                      PortEntry(Key22tcp, <<Mapping(Some(<<"2", "2", "0", "0">>)), Mapping(Some(<<"2", "2", "0", "1">>))>>)>>))), TRUE),
      \* Name "/", only 2222/tcp is published
      Doc(Some(<<"/">>), Some(Net(Some("10.88.0.3"), Some(<<PortEntry(Key2222tcp, <<Mapping(Some(<<"8", "0", "8", "0">>))>>)>>))), TRUE),
      \* "web", 22/tcp with a HostPort that is not a number
      Doc(Some(Str_web), Some(Net(Some("10.88.0.4"), Some(<<PortEntry(Key22tcp, <<Mapping(Some(<<"a", "b", "c">>))>>)>>))), TRUE),
      \* "web", 22/tcp with no mapping, 22/udp with an empty HostPort
      Doc(Some(Str_web), Some(Net(Some("10.88.0.5"), Some(<<PortEntry(Key22tcp, <<>>),
                                                            PortEntry(Key22udp, <<Mapping(Some(<<>>))>>)>>))), TRUE),
      \* "db", 22/tcp whose mapping has no HostPort, no NetworkSettings.IPAddress
      Doc(Some(<<"d", "b">>), Some(Net(None, Some(<<PortEntry(Key22tcp, <<Mapping(None)>>)>>))), TRUE),
      \* "db2", 220/udp listed before 22/tcp
      Doc(Some(<<"d", "b", "2">>), Some(Net(Some("10.88.0.6"), Some(<<PortEntry(Key220udp, <<Mapping(Some(<<"9", "0", "0", "0">>))>>),
                                                                      PortEntry(Key22tcp, <<Mapping(Some(<<"2", "2", "2", "2">>))>>)>>))), TRUE),
      \* "/cache", no NetworkSettings at all
      Doc(Some(<<"/", "c", "a", "c", "h", "e">>), None, TRUE) }

\* What one 'podman inspect <id>' call gives back: exit status and the
\* parsed JSON list (empty or one document).
InspectResults ==
    { [returncode |-> 125, data |-> <<>>], [returncode |-> 0, data |-> <<>>] }
    \cup { [returncode |-> 0, data |-> <<d>>] : d \in Docs }

\* What 'podman ps -q' gives back: the command cannot be started
\* (subprocess.run raises OSError), a non-zero exit status, or the lines of
\* its output.
ListResults ==
    { [started |-> FALSE, returncode |-> 0, lines |-> <<>>],
      [started |-> TRUE, returncode |-> 125, lines |-> <<>>] }
    \cup { [started |-> TRUE, returncode |-> 0, lines |-> [i \in 1..n |-> ContainerId(i)]] :
             n \in 0..MaxContainers }

\* ------------------------------------------------------ pure functions
\* get_container_ids(), for a command that could be started
get_container_ids(r) == IF r.returncode # 0 THEN <<>> ELSE r.lines

\* inspect_container(): None on a non-zero exit status or an empty list
inspect_container(r) ==
    IF r.returncode # 0 THEN None
    ELSE IF r.data # <<>> THEN Some(r.data[1]) ELSE None

\* 'not data' for the value inspect_container returns: None or {}
IsFalsyData(data) ==
    \/ data = None
    \/ data[1].Name = None /\ data[1].NetworkSettings = None /\ ~data[1].other

RECURSIVE SelectedEntry(_)
\* the loop over ports.items(): the entry the loop breaks on, the first one
\* whose key starts with "22" and whose mapping list is not empty
SelectedEntry(ports) ==
    IF ports = <<>> THEN None
    ELSE IF startswith(Head(ports).key, <<"2", "2">>) /\ Head(ports).mappings # <<>>
         THEN Some(Head(ports))
         ELSE SelectedEntry(Tail(ports))

\* ssh_port after the loop: mappings[0].get("HostPort") of the selected
\* entry, None when the loop never breaks
ScanPorts(ports) ==
    IF SelectedEntry(ports) = None THEN None
    ELSE SelectedEntry(ports)[1].mappings[1].HostPort

\* net.get("Ports", {}) of a document, in document order
PortsOf(d) ==
    IF d.NetworkSettings = None \/ d.NetworkSettings[1].Ports = None THEN <<>>
    ELSE d.NetworkSettings[1].Ports[1]

\* extract_container_info(container_data)
extract_container_info(d) ==
    LET net == IF d.NetworkSettings = None THEN Net(None, None) ELSE d.NetworkSettings[1]
    IN [name |-> lstrip(IF d.Name = None THEN <<>> ELSE d.Name[1], "/"),
        ip |-> IF net.IPAddress = None THEN "" ELSE net.IPAddress[1],
        port |-> ScanPorts(PortsOf(d))]

\* 'if port' : a HostPort that is neither None nor ""
IsTruthyPort(port) == port # None /\ port[1] # <<>>

\* int(port) raises ValueError
PortRaises(port) == IsTruthyPort(port) /\ ~IsNumeric(port[1])

\* name after the fallback 'if not name: name = cid[:12]'
HostName(cid, d) ==
    LET n == extract_container_info(d).name
    IN IF n = <<>> THEN Slice(cid, NamePrefixLen) ELSE n

\* the host_vars dictionary, when int(port) does not raise
HostVars(cid, d) ==
    LET info == extract_container_info(d)
    IN [ansible_host |-> IF info.ip # "" THEN info.ip ELSE "localhost",
        ansible_port |-> IF IsTruthyPort(info.port) THEN int(info.port[1]) ELSE DefaultPort,
        container_id |-> cid,
        container_name |-> HostName(cid, d)]

\* BuildAssignment without the line that gives production the first
\* container when there are two
BuildAssignment_NoProduction(info, choice) ==
    LET total == Len(info)
    IN [env \in Envs |->
          IF total >= 3
          THEN {info[i].name : i \in {j \in 1..3 : environments[j] = env}}
               \cup {info[i].name : i \in {j \in 4..total : choice[j - 3] = env}}
          ELSE IF total = 2
          THEN IF env = "dev" THEN {info[1].name}
               ELSE IF env = "staging" THEN {info[2].name}
               ELSE {}
          ELSE IF total = 1
          THEN {info[1].name}
          ELSE {}]

\* BuildAssignment without the loop over containers_info[3:]
BuildAssignment_DropRest(info, choice) ==
    LET total == Len(info)
    IN [env \in Envs |->
          IF total >= 3
          THEN {info[i].name : i \in {j \in 1..3 : environments[j] = env}}
          ELSE IF total = 2
          THEN IF env = "dev" THEN {info[1].name}
               ELSE IF env = "staging" THEN {info[2].name}
               ELSE IF env = "production" THEN {info[1].name}
               ELSE {}
          ELSE IF total = 1
          THEN {info[1].name}
          ELSE {}]

\* the group assignment built from containers_info; choice[k] is what
\* random.choice(environments) returns for the k-th container after the third
BuildAssignment(info, choice) ==
    LET total == Len(info)
    IN [env \in Envs |->
          IF total >= 3
          THEN {info[i].name : i \in {j \in 1..3 : environments[j] = env}}
               \cup {info[i].name : i \in {j \in 4..total : choice[j - 3] = env}}
          ELSE IF total = 2
          THEN IF env = "dev" THEN {info[1].name}
               ELSE IF env = "staging" THEN {info[2].name}
               ELSE IF env = "production" THEN {info[1].name}
               ELSE {}
          ELSE IF total = 1
          THEN {info[1].name}
          ELSE {}]

\* the outcomes of random.choice for the containers after the third
Choices(info) == [1..(Len(info) - 3) -> Envs]

\* 'for cid in container_ids' has no identifier left after position i
LoopExhausted(i, ids) == i > Len(ids)

\* LoopItem that never advances past the first identifier
LoopItem_AlwaysFirst(i, ids) == ids[1]

\* the identifier the loop hands to inspect_container at position i
LoopItem(i, ids) == ids[i]

Event(op, arg) == [op |-> op, arg |-> arg]

\* the host_vars file written for a record, then the record appended
HostFileEvents(name) == <<Event("write_host", name)>>

\* the group_vars files, written in the order of group_vars_definitions
GroupFileEvents == [i \in 1..Len(environments) |-> Event("write_group", <<environments[i]>>)]

\* ---------------------------------------------------------------- state
Init ==
    /\ pc = "start"
    /\ dirs = {}
    /\ list_result = None
    /\ container_ids = <<>>
    /\ idx = 1
    /\ results = <<>>
    /\ containers_info = <<>>
    /\ assigned = [env \in Envs |-> {}]
    /\ host_vars_files = <<>>
    /\ group_vars_files = {}
    /\ inventory = None
    /\ stdout = <<>>
    /\ log = <<>>
    /\ raised = "none"

\* generate_inventory, lines 49-56: the directories, the listing and the
\* early return on an empty listing
ListContainers ==
    /\ pc = "start"
    /\ \E r \in ListResults :
         /\ dirs' = {"host_vars", "group_vars"}
         /\ list_result' = Some(r)
         /\ log' = Append(log, Event("list", <<>>))
         /\ IF ~r.started
            THEN /\ pc' = "crashed"
                 /\ raised' = "OSError"
                 /\ UNCHANGED <<container_ids, stdout>>
            ELSE LET ids == get_container_ids(r)
                 IN /\ container_ids' = ids
                    /\ stdout' = stdout
                                 \o (IF r.returncode # 0 THEN <<"Error running podman ps">> ELSE <<>>)
                                 \o (IF ids = <<>> THEN <<"No running containers found.">> ELSE <<>>)
                    /\ pc' = IF ids = <<>> THEN "done" ELSE "inspect"
                    /\ UNCHANGED raised
    /\ UNCHANGED <<idx, results, containers_info, assigned, host_vars_files,
                   group_vars_files, inventory>>

\* generate_inventory, lines 59-82: one iteration of the loop over
\* container_ids
InspectStep ==
    /\ pc = "inspect"
    /\ ~LoopExhausted(idx, container_ids)
    /\ \E r \in InspectResults :
         LET cid == LoopItem(idx, container_ids)
             data == inspect_container(r)
             err == IF r.returncode # 0 THEN <<"Error inspecting container">> ELSE <<>>
             next_pc == IF LoopExhausted(idx + 1, container_ids) THEN "assign" ELSE "inspect"
         IN /\ results' = Append(results, r)
            /\ IF IsFalsyData(data)
               THEN /\ log' = Append(log, Event("inspect", cid))
                    /\ stdout' = stdout \o err
                    /\ idx' = idx + 1
                    /\ pc' = next_pc
                    /\ UNCHANGED <<containers_info, host_vars_files, raised>>
               ELSE IF PortRaises(extract_container_info(data[1]).port)
               THEN /\ log' = Append(log, Event("inspect", cid))
                    /\ pc' = "crashed"
                    /\ raised' = "ValueError"
                    /\ UNCHANGED <<stdout, idx, containers_info, host_vars_files>>
               ELSE LET hv == HostVars(cid, data[1])
                        name == hv.container_name
                    IN /\ log' = Append(log, Event("inspect", cid)) \o HostFileEvents(name)
                       /\ host_vars_files' =
                            IF \E i \in 1..Len(host_vars_files) : host_vars_files[i].name = name
                            THEN [i \in 1..Len(host_vars_files) |->
                                    IF host_vars_files[i].name = name
                                    THEN [name |-> name, content |-> hv]
                                    ELSE host_vars_files[i]]
                            ELSE Append(host_vars_files, [name |-> name, content |-> hv])
                       /\ stdout' = stdout \o <<"Created host_vars file">>
                       /\ containers_info' = Append(containers_info, [name |-> name, host_vars |-> hv])
                       /\ idx' = idx + 1
                       /\ pc' = next_pc
                       /\ UNCHANGED raised
    /\ UNCHANGED <<dirs, list_result, container_ids, assigned, group_vars_files, inventory>>

\* generate_inventory, lines 85-105: the group assignment
AssignGroups ==
    /\ pc = "assign"
    /\ \E choice \in Choices(containers_info) :
         assigned' = BuildAssignment(containers_info, choice)
    /\ pc' = "write_group_vars"
    /\ UNCHANGED <<dirs, list_result, container_ids, idx, results, containers_info,
                   host_vars_files, group_vars_files, inventory, stdout, log, raised>>

\* generate_inventory, lines 148-152: one group_vars file per environment
WriteGroupVars ==
    /\ pc = "write_group_vars"
    /\ group_vars_files' = group_vars_files \cup Envs
    /\ log' = log \o GroupFileEvents
    /\ stdout' = stdout \o [i \in 1..Len(environments) |-> "Created group_vars file"]
    /\ pc' = "write_inventory"
    /\ UNCHANGED <<dirs, list_result, container_ids, idx, results, containers_info,
                   assigned, host_vars_files, inventory, raised>>

\* generate_inventory, lines 156-170: the static inventory; each group's
\* "hosts" dictionary has the members of assigned[env] as its keys
WriteInventory ==
    /\ pc = "write_inventory"
    /\ inventory' = Some([env \in Envs |-> assigned[env]])
    /\ log' = Append(log, Event("write_inventory", <<"inventory.yml">>))
    /\ stdout' = Append(stdout, "Generated inventory.yml")
    /\ pc' = "done"
    /\ UNCHANGED <<dirs, list_result, container_ids, idx, results, containers_info,
                   assigned, host_vars_files, group_vars_files, raised>>

Next ==
    \/ ListContainers
    \/ InspectStep
    \/ AssignGroups
    \/ WriteGroupVars
    \/ WriteInventory

Spec == Init /\ [][Next]_vars

\* ------------------------------------------------------------ properties
\* positions of container_ids whose inspect call has returned
Inspected == 1..Len(results)

\* the inspect call at position i gave no usable document
InspectFailed(i) == IsFalsyData(inspect_container(results[i]))

\* the document the inspect call at position i gave
DocOf(i) == inspect_container(results[i])[1]

\* the host records built for the identifier at position i
RecordsOf(i) ==
    {k \in 1..Len(containers_info) :
        containers_info[k].host_vars.container_id = container_ids[i]}

\* the host files holding the identifier at position i
FilesOf(i) ==
    {k \in 1..Len(host_vars_files) :
        host_vars_files[k].content.container_id = container_ids[i]}

HostNames == {containers_info[k].name : k \in 1..Len(containers_info)}

NoFileWritten == host_vars_files = <<>> /\ group_vars_files = {} /\ inventory = None

IsWrite(e) == e.op \in {"write_host", "write_group", "write_inventory"}

Said(msg) == \E i \in 1..Len(stdout) : stdout[i] = msg

\* C1: whenever the inventory is written and at least one host record was
\* built, every declared group of the inventory has at least one member.
C1_Coverage ==
    (inventory # None /\ Len(containers_info) >= 1)
        => \A env \in Envs : inventory[1][env] # {}

\* an inventory written from exactly two host records
C1_Witness ==
    /\ inventory # None
    /\ Len(containers_info) = 2
    /\ inventory[1]["production"] = {containers_info[1].name}

\* C2: a run that ends with no host record has printed "No running
\* containers found.", has built no group and has written no file.
C2_NoHostsNoFiles ==
    (pc = "done" /\ Len(containers_info) = 0)
        => /\ Said("No running containers found.")
           /\ NoFileWritten

\* C3: when the run has ended, every identifier whose inspect failed has no
\* host record and no host file, the run did not abort, and every
\* identifier listed after it was inspected and has a host record if its
\* inspect gave a document.
C3_InspectFailureNotFatal ==
    pc \in {"done", "crashed"}
        => \A i \in Inspected :
             InspectFailed(i)
                 => /\ RecordsOf(i) = {}
                    /\ FilesOf(i) = {}
                    /\ pc # "crashed"
                    /\ \A j \in (i + 1)..Len(container_ids) :
                         /\ j \in Inspected
                         /\ ~InspectFailed(j) => RecordsOf(j) # {}

\* the port C4 asks for, given the HostPort the scan found
ClaimedPort(port) ==
    IF port # None /\ IsNumeric(port[1]) THEN int(port[1]) ELSE DefaultPort

\* C4: every container whose inspect gave a document has a host record
\* (building it did not raise) and the record's ansible_port is the HostPort
\* found when that is numeric, 22 otherwise.
C4_PortOrDefault ==
    \A i \in Inspected :
        ~InspectFailed(i)
            => /\ RecordsOf(i) # {}
               /\ \A k \in RecordsOf(i) :
                    containers_info[k].host_vars.ansible_port
                        = ClaimedPort(ScanPorts(PortsOf(DocOf(i))))

RECURSIVE PortNumber(_)
\* the port number of a "<port>/<proto>" key: the characters before "/"
PortNumber(key) ==
    IF key = <<>> \/ Head(key) = "/" THEN <<>>
    ELSE <<Head(key)>> \o PortNumber(Tail(key))

RECURSIVE ClaimedEntry(_)
\* the entry C5 asks for: the first one whose port number is 22 (and that
\* has a mapping)
ClaimedEntry(ports) ==
    IF ports = <<>> THEN None
    ELSE IF PortNumber(Head(ports).key) = <<"2", "2">> /\ Head(ports).mappings # <<>>
         THEN Some(Head(ports))
         ELSE ClaimedEntry(Tail(ports))

\* C5: for every host record, the port-table entry used is the first one
\* whose port number equals 22, and a container that publishes no port 22
\* gets ansible_port 22.
C5_KeySelection ==
    \A i \in Inspected :
        \A k \in RecordsOf(i) :
            LET ports == PortsOf(DocOf(i))
            IN /\ SelectedEntry(ports) = ClaimedEntry(ports)
               /\ (\A e \in 1..Len(ports) : PortNumber(ports[e].key) # <<"2", "2">>)
                    => containers_info[k].host_vars.ansible_port = DefaultPort

\* the name C6 asks for: Name without one leading "/", the first twelve
\* characters of the identifier when that is empty
ClaimedName(cid, d) ==
    LET n == IF d.Name = None THEN <<>> ELSE d.Name[1]
        stripped == IF n # <<>> /\ Head(n) = "/" THEN Tail(n) ELSE n
    IN IF stripped = <<>> THEN Slice(cid, NamePrefixLen) ELSE stripped

\* C6: every host record's name is the Name field with exactly one leading
\* "/" removed, or the first 12 characters of the identifier when that is
\* empty or the field is absent.
C6_HostName ==
    \A i \in Inspected :
        \A k \in RecordsOf(i) :
            containers_info[k].name = ClaimedName(container_ids[i], DocOf(i))

\* host record j counts as a member of a group when its name is in the set
MemberOf(j, env) == containers_info[j].name \in assigned[env]

\* C7: once the groups are assigned from three or more host records, host i
\* is in group i and no other of the first three hosts is; with exactly
\* three records every group has one member and the three are distinct.
C7_FirstThreeOnePerGroup ==
    (pc \in {"write_group_vars", "write_inventory", "done"} /\ Len(containers_info) >= 3)
        => /\ \A i \in 1..3 :
                /\ MemberOf(i, environments[i])
                /\ \A j \in (1..3) \ {i} : ~MemberOf(j, environments[i])
           /\ Len(containers_info) = 3
                => /\ \A env \in Envs : Cardinality(assigned[env]) = 1
                   /\ Cardinality(UNION {assigned[env] : env \in Envs}) = 3

\* C8: after a listing that could not be run or exited non-zero, the run has
\* ended normally, has said that no containers were found, and has made no
\* inspect call and written no file.
C8_ListFailureRecovered ==
    (list_result # None /\ (~list_result[1].started \/ list_result[1].returncode # 0))
        => /\ pc = "done"
           /\ Said("No running containers found.")
           /\ results = <<>>
           /\ NoFileWritten

\* C9: in the written inventory of a run with at least one host record, the
\* union of the groups' member sets is exactly the set of host-record names.
C9_UnionIsHosts ==
    (inventory # None /\ Len(containers_info) >= 1)
        => UNION {inventory[1][env] : env \in Envs} = HostNames

\* an inventory written from more than three host records with distinct names
C9_Witness ==
    /\ inventory # None
    /\ Len(containers_info) > 3
    /\ Cardinality(HostNames) = Len(containers_info)

\* the list query is the first call of the run and is made once
OneListFirst ==
    log # <<>> => /\ log[1].op = "list"
                  /\ \A i \in 2..Len(log) : log[i].op # "list"

\* the inspect calls made so far are for the listed identifiers, in listing
\* order, one call each
InspectsInListingOrder ==
    LET calls == SelectSeq(log, LAMBDA e : e.op = "inspect")
    IN /\ Len(calls) <= Len(container_ids)
       /\ \A k \in 1..Len(calls) : calls[k].arg = container_ids[k]

\* C10 as stated: one list query first, the inspect calls in listing order,
\* and no file write of any kind before an inspect call.
C10_PhaseOrder ==
    /\ OneListFirst
    /\ InspectsInListingOrder
    /\ \A i, j \in 1..Len(log) :
         (i < j /\ IsWrite(log[i])) => log[j].op # "inspect"

\* C10 amended: one list query first, the inspect calls in listing order;
\* no group-configuration or inventory write before an inspect call; every
\* host-record write directly follows the inspect call of its own container.
C10_PhaseOrderAmended ==
    /\ OneListFirst
    /\ InspectsInListingOrder
    /\ \A i, j \in 1..Len(log) :
         (i < j /\ log[i].op \in {"write_group", "write_inventory"})
             => log[j].op # "inspect"
    /\ \A i \in 1..Len(log) :
         log[i].op = "write_host"
             => /\ i > 1
                /\ log[i - 1].op = "inspect"
                /\ \E k \in 1..Len(containers_info) :
                     /\ containers_info[k].host_vars.container_id = log[i - 1].arg
                     /\ containers_info[k].name = log[i].arg

\* a finished run in which a host file was written between two inspect calls
C10_Witness ==
    /\ pc = "done"
    /\ inventory # None
    /\ \E i, j \in 1..Len(log) :
         i < j /\ log[i].op = "write_host" /\ log[j].op = "inspect"

====
